---- MODULE Spec2Model ----
(***************************************************************************)
(* awesome-axios-logger: the three axios interceptors built by             *)
(* createLoggerInterceptors (createAxiosLogger.ts), the Log Writer saveLog *)
(* (saveLog.ts) and the naming / classification helpers (utils.ts).        *)
(*                                                                         *)
(* A JavaScript string is a sequence of one-character strings.  A          *)
(* JavaScript value is a record [t |-> typeof-like tag, v |-> payload],    *)
(* the payload always a sequence of strings.                               *)
(***************************************************************************)
EXTENDS Integers, Sequences, FiniteSets, TLC

----------------------------------------------------------------------------
(* Characters and strings *)

LowerChars == <<"a","b","c","d","e","f","g","h","i","j","k","l","m",
                "n","o","p","q","r","s","t","u","v","w","x","y","z">>

UpperChars == <<"A","B","C","D","E","F","G","H","I","J","K","L","M",
                "N","O","P","Q","R","S","T","U","V","W","X","Y","Z">>

DigitChars == <<"0","1","2","3","4","5","6","7","8","9">>

Range(f) == {f[i] : i \in DOMAIN f}

IsLower(c) == c \in Range(LowerChars)
IsUpper(c) == c \in Range(UpperChars)
IsDigit(c) == c \in Range(DigitChars)
IsAlpha(c) == IsLower(c) \/ IsUpper(c)
IsAlnum(c) == IsAlpha(c) \/ IsDigit(c)

IndexIn(chars, c) == CHOOSE i \in DOMAIN chars : chars[i] = c

\* String.prototype.toLowerCase / toUpperCase
toLowerCase(s) ==
  [i \in 1..Len(s) |->
     IF IsUpper(s[i]) THEN LowerChars[IndexIn(UpperChars, s[i])] ELSE s[i]]

toUpperCase(s) ==
  [i \in 1..Len(s) |->
     IF IsLower(s[i]) THEN UpperChars[IndexIn(LowerChars, s[i])] ELSE s[i]]

\* String.prototype.startsWith
startsWith(s, p) == Len(s) >= Len(p) /\ SubSeq(s, 1, Len(p)) = p

DropFirst(s, n) == SubSeq(s, n + 1, Len(s))

\* index of the first occurrence of p in s, 0 when there is none
IndexOf(s, p) ==
  LET hits == {i \in 1..(Len(s) - Len(p) + 1) : SubSeq(s, i, i + Len(p) - 1) = p}
  IN  IF hits = {} THEN 0 ELSE CHOOSE i \in hits : \A j \in hits : i <= j

\* String.prototype.includes
includes(s, p) == p = <<>> \/ IndexOf(s, p) > 0

\* String.prototype.replace with a string pattern: the first occurrence only
replaceFirst(s, p, r) ==
  LET i == IndexOf(s, p)
  IN  IF i = 0 THEN s
      ELSE SubSeq(s, 1, i - 1) \o r \o SubSeq(s, i + Len(p), Len(s))

\* a split that keeps the whole string
Unsplit(s, sep) == s

\* String.prototype.split(sep)[0]
BeforeFirst(s, sep) ==
  LET i == IndexOf(s, sep) IN IF i = 0 THEN s ELSE SubSeq(s, 1, i - 1)

IsSpace(c) == c \in {" ", "\n", "\t"}

RECURSIVE TrimStart(_)
TrimStart(s) ==
  IF s # <<>> /\ IsSpace(Head(s)) THEN TrimStart(Tail(s)) ELSE s

RECURSIVE TrimEnd(_)
TrimEnd(s) ==
  IF s # <<>> /\ IsSpace(s[Len(s)]) THEN TrimEnd(SubSeq(s, 1, Len(s) - 1)) ELSE s

\* String.prototype.trim
trim(s) == TrimEnd(TrimStart(s))

\* decimal rendering of a non-negative integer in a template string
RECURSIVE NumToStr(_)
NumToStr(n) ==
  IF n < 10 THEN <<DigitChars[n + 1]>>
  ELSE NumToStr(n \div 10) \o <<DigitChars[(n % 10) + 1]>>

----------------------------------------------------------------------------
(* utils.ts: sanitize *)

HttpPrefix  == <<"h","t","t","p",":","/","/">>
HttpsPrefix == <<"h","t","t","p","s",":","/","/">>

\* .replace(/^https?:\/\//, '')
StripScheme(s) ==
  IF startsWith(s, HttpPrefix) THEN DropFirst(s, Len(HttpPrefix))
  ELSE IF startsWith(s, HttpsPrefix) THEN DropFirst(s, Len(HttpsPrefix))
  ELSE s

RECURSIVE DropNonAlnum(_)
DropNonAlnum(s) ==
  IF s # <<>> /\ ~IsAlnum(Head(s)) THEN DropNonAlnum(Tail(s)) ELSE s

\* .replace(/[^a-zA-Z0-9]+/g, '_')
RECURSIVE ReplaceNonAlnumRuns(_)
ReplaceNonAlnumRuns(s) ==
  IF s = <<>> THEN <<>>
  ELSE IF IsAlnum(Head(s)) THEN <<Head(s)>> \o ReplaceNonAlnumRuns(Tail(s))
  ELSE <<"_">> \o ReplaceNonAlnumRuns(DropNonAlnum(s))

RECURSIVE DropUnderscores(_)
DropUnderscores(s) ==
  IF s # <<>> /\ Head(s) = "_" THEN DropUnderscores(Tail(s)) ELSE s

RECURSIVE DropTrailingUnderscores(_)
DropTrailingUnderscores(s) ==
  IF s # <<>> /\ s[Len(s)] = "_"
  THEN DropTrailingUnderscores(SubSeq(s, 1, Len(s) - 1)) ELSE s

\* a sanitize that keeps the underscores at the ends
KeepEnds(s) == s

\* .replace(/^_+|_+$/g, '')
TrimUnderscores(s) == DropTrailingUnderscores(DropUnderscores(s))

\* .replace(/_+/g, '_')
RECURSIVE CollapseUnderscores(_)
CollapseUnderscores(s) ==
  IF s = <<>> THEN <<>>
  ELSE IF Head(s) = "_" THEN <<"_">> \o CollapseUnderscores(DropUnderscores(s))
  ELSE <<Head(s)>> \o CollapseUnderscores(Tail(s))

sanitize(str) ==
  toLowerCase(CollapseUnderscores(TrimUnderscores(ReplaceNonAlnumRuns(StripScheme(str)))))

\* a sanitized string: only a-z, 0-9 and single underscores, none leading or trailing
IsSanitized(s) ==
  /\ \A i \in 1..Len(s) : IsLower(s[i]) \/ IsDigit(s[i]) \/ s[i] = "_"
  /\ s # <<>> => s[1] # "_" /\ s[Len(s)] # "_"
  /\ \A i \in 1..(Len(s) - 1) : ~(s[i] = "_" /\ s[i + 1] = "_")

----------------------------------------------------------------------------
(* utils.ts: getPathFromUrl.  new URL(url) without a base parses only an   *)
(* absolute URL: a scheme, then for http(s) a non-empty host.  The inputs  *)
(* of the model need no percent-encoding or dot-segment normalisation.     *)

IsSchemeChar(c) == IsAlnum(c) \/ c \in {"+", "-", "."}

\* position of the ":" that ends a valid scheme, 0 when the string has none
SchemeEnd(url) ==
  LET i == IndexOf(url, <<":">>)
  IN  IF /\ i > 1
         /\ IsAlpha(url[1])
         /\ \A j \in 1..(i - 1) : IsSchemeChar(url[j])
      THEN i ELSE 0

RECURSIVE DropSlashes(_)
DropSlashes(s) ==
  IF s # <<>> /\ Head(s) \in {"/", "\\"} THEN DropSlashes(Tail(s)) ELSE s

RECURSIVE TakeUntil(_, _)
TakeUntil(s, stops) ==
  IF s = <<>> \/ Head(s) \in stops THEN <<>>
  ELSE <<Head(s)>> \o TakeUntil(Tail(s), stops)

IsSpecialScheme(scheme) ==
  toLowerCase(scheme) \in {<<"h","t","t","p">>, <<"h","t","t","p","s">>}

\* new URL(url): [ok |-> parsed, pathname |-> urlObj.pathname]
ParseURL(url) ==
  LET e == SchemeEnd(url) IN
  IF e = 0 THEN [ok |-> FALSE, pathname |-> <<>>]
  ELSE
    LET scheme == SubSeq(url, 1, e - 1)
        rest   == DropFirst(url, e)
    IN  IF IsSpecialScheme(scheme)
        THEN LET auth == DropSlashes(rest)
                 host == TakeUntil(auth, {"/", "\\", "?", "#"})
                 path == TakeUntil(DropFirst(auth, Len(host)), {"?", "#"})
             IN  IF host = <<>> THEN [ok |-> FALSE, pathname |-> <<>>]
                 ELSE [ok |-> TRUE,
                       pathname |-> IF path = <<>> THEN <<"/">> ELSE path]
        ELSE IF startsWith(rest, <<"/", "/">>)
        THEN LET auth == DropFirst(rest, 2)
                 host == TakeUntil(auth, {"/", "?", "#"})
             IN  [ok |-> TRUE,
                  pathname |-> TakeUntil(DropFirst(auth, Len(host)), {"?", "#"})]
        ELSE [ok |-> TRUE, pathname |-> TakeUntil(rest, {"?", "#"})]

getPathFromUrl(url) ==
  LET urlObj == ParseURL(url) IN
  IF urlObj.ok THEN sanitize(urlObj.pathname)
  ELSE sanitize(BeforeFirst(url, <<"?">>))

----------------------------------------------------------------------------
(* JavaScript values *)

Undefined   == [t |-> "undefined", v |-> <<>>]
Null        == [t |-> "null", v |-> <<>>]
Str(s)      == [t |-> "string", v |-> s]
Num(n)      == [t |-> "number", v |-> NumToStr(n)]
Bool(b)     == [t |-> "boolean", v |-> IF b THEN <<"true">> ELSE <<"false">>]
PlainObject == [t |-> "object", v |-> <<"plain">>]
\* an object JSON.stringify throws on: a circular structure (a stream, a socket)
CyclicObject == [t |-> "object", v |-> <<"cyclic">>]
\* a headers object; its payload is the content-type entry, <<>> when it has none
Headers(ct) == [t |-> "headers", v |-> ct]
\* a headers object whose content-type entry is the number n
NumericHeaders(n) == [t |-> "numeric headers", v |-> NumToStr(n)]

IsString(x) == x.t = "string"
IsObject(x) == x.t \in {"object", "headers", "numeric headers"}
IsCyclic(x) == x = CyclicObject

\* JavaScript truthiness
Truthy(x) ==
  CASE x.t \in {"undefined", "null"} -> FALSE
    [] x.t = "string" -> x.v # <<>>
    [] x.t = "number" -> x.v # <<"0">>
    [] x.t = "boolean" -> x.v = <<"true">>
    [] OTHER -> TRUE

\* a || b
Or(a, b) == IF Truthy(a) THEN a ELSE b

\* headers?.['content-type']
ContentType(headers) ==
  IF headers.t = "headers" /\ headers.v # <<>> THEN Str(headers.v)
  ELSE IF headers.t = "numeric headers" THEN [t |-> "number", v |-> headers.v]
  ELSE Undefined

----------------------------------------------------------------------------
(* JSON.stringify.  A text is a sequence of <<key, type, payload>> entries: *)
(* a document has one entry per property whose value is not undefined, in   *)
(* property order; a bare value has one entry with the empty key; a string  *)
(* written as-is is one entry of type "raw".                                *)

RawText(s) == << <<"", "raw", s>> >>

\* what JSON.stringify(undefined) returns: undefined, not a string
NotAString == << <<"", "undefined", <<>> >> >>

RECURSIVE DefinedEntries(_)
DefinedEntries(doc) ==
  IF doc = <<>> THEN <<>>
  ELSE IF Head(doc)[2].t = "undefined" THEN DefinedEntries(Tail(doc))
  ELSE << <<Head(doc)[1], Head(doc)[2].t, Head(doc)[2].v>> >> \o DefinedEntries(Tail(doc))

\* JSON.stringify(doc, null, 2) of an object literal, doc a sequence of <<key, value>>
JSONstringify(doc) ==
  IF \E i \in 1..Len(doc) : IsCyclic(doc[i][2])
  THEN [threw |-> TRUE, text |-> <<>>]
  ELSE [threw |-> FALSE, text |-> DefinedEntries(doc)]

\* JSON.stringify(value, null, 2) of a bare value
JSONstringifyValue(x) ==
  IF IsCyclic(x) THEN [threw |-> TRUE, text |-> <<>>]
  ELSE IF x.t = "undefined" THEN [threw |-> FALSE, text |-> NotAString]
  ELSE [threw |-> FALSE, text |-> << <<"", x.t, x.v>> >>]

\* the value of property key in a JSON text, Undefined when it has none
Property(text, key) ==
  IF \E i \in 1..Len(text) : text[i][1] = key
  THEN LET i == CHOOSE j \in 1..Len(text) : text[j][1] = key
       IN  [t |-> text[i][2], v |-> text[i][3]]
  ELSE Undefined

----------------------------------------------------------------------------
(* utils.ts: detectExt, defaultFilename, buildFilepath *)

JSON == <<"j","s","o","n">>
HTML == <<"h","t","m","l">>
TXT  == <<"t","x","t">>
REQ  == <<"r","e","q">>
RES  == <<"r","e","s">>
ERR  == <<"e","r","r">>

\* contentType?.includes(...) throws: the value is neither undefined nor null
\* and has no includes method
detectExtThrows(data, headers) == ContentType(headers).t \in {"number", "boolean"}

\* the extension detectExt returns when it returns
detectExt(data, headers) ==
  LET contentType == ContentType(headers) IN
  IF IsString(contentType) /\ includes(contentType.v, HTML) THEN HTML
  ELSE IF IsString(contentType) /\ includes(contentType.v, JSON) THEN JSON
  ELSE IF IsString(data) /\ (\/ startsWith(trim(data.v), <<"<", "!">>)
                             \/ startsWith(trim(data.v), <<"<","h","t","m","l">>))
  THEN HTML
  ELSE IF IsString(data) /\ (\/ startsWith(trim(data.v), <<"{">>)
                             \/ startsWith(trim(data.v), <<"[">>))
  THEN JSON
  ELSE IF IsObject(data) THEN JSON
  ELSE TXT

\* `${ts}_${hostname}_${path}_${kind}.${ext}`
defaultFilename(params) ==
  NumToStr(params.ts) \o <<"_">> \o params.hostname \o <<"_">> \o params.path
    \o <<"_">> \o params.kind \o <<".">> \o params.ext

\* README "Minimal format (without hostname)": `${ts}_${path}_${kind}.${ext}`
minimalFilename(params) ==
  NumToStr(params.ts) \o <<"_">> \o params.path \o <<"_">> \o params.kind
    \o <<".">> \o params.ext

\* a caller's naming function that groups by kind: `${kind}/${ts}_${path}.${ext}`
kindDirFilename(params) ==
  params.kind \o <<"/">> \o NumToStr(params.ts) \o <<"_">> \o params.path
    \o <<".">> \o params.ext

\* the FilenameFunction values the options may carry
FilenameFunctions == {"defaultFilename", "minimalFilename", "kindDirFilename"}

\* filenameFn(params)
ApplyFilename(filenameFn, params) ==
  CASE filenameFn = "defaultFilename" -> defaultFilename(params)
    [] filenameFn = "minimalFilename" -> minimalFilename(params)
    [] filenameFn = "kindDirFilename" -> kindDirFilename(params)

\* a join that leaves out the path separator
JoinedBare(dir, filenameFn, params, ext) ==
  dir \o ApplyFilename(filenameFn,
                       [ts |-> params.ts, hostname |-> params.hostname,
                        url |-> params.url, path |-> params.path,
                        kind |-> params.kind, ext |-> ext])

buildFilepath(dir, filenameFn, params, ext) ==
  LET filename ==
        ApplyFilename(filenameFn,
                      [ts |-> params.ts, hostname |-> params.hostname,
                       url |-> params.url, path |-> params.path,
                       kind |-> params.kind, ext |-> ext])
  IN  dir \o <<"/">> \o filename

----------------------------------------------------------------------------
(* saveLog.ts *)

\* node:path dirname
dirname(filepath) ==
  LET slashes == {i \in 1..Len(filepath) : filepath[i] = "/"}
      last    == IF slashes = {} THEN 0
                 ELSE CHOOSE i \in slashes : \A j \in slashes : j <= i
  IN  IF last = 0 THEN <<".">>
      ELSE IF last = 1 THEN <<"/">>
      ELSE SubSeq(filepath, 1, last - 1)

\* a promise without its .catch: the failure of the primitive propagates
Uncaught(ok) == IF ok THEN "fulfilled" ELSE "rejected"

\* promise.catch(() => {}): fulfilled whether the primitive succeeded or failed
Caught(ok) == "fulfilled"

\* writeFile accepts only string content
IsWritable(content) == content # NotAString

----------------------------------------------------------------------------
(* Bounds and inputs *)

\* the exchange slots of the client are 1..MaxExchanges
MaxExchanges == 2
\* Date.now() runs from FirstNow to MaxNow milliseconds
FirstNow == 1999
MaxNow == 2001

Exchanges == 1..MaxExchanges

\* os.hostname()
OsHostname == <<"M","a","c","-","1">>

\* options.dir
Dirs == {<<".","/","l">>}

UrlAbsolute == <<"h","t","t","p","s",":","/","/","h","/","V","1","/","p","?","q">>
UrlRelative == <<"/","a","/","/","b","?","x">>

\* the root path, relative to the client's baseURL
UrlRoot     == <<"/">>

NoConfig ==
  [url |-> Undefined, method |-> Undefined, headers |-> Undefined,
   data |-> Undefined, logAs |-> Undefined, skipLog |-> FALSE,
   _logPath |-> Undefined, _logStartTime |-> <<>>]

\* the request configurations a caller submits
Configs ==
  { [NoConfig EXCEPT !.url = Str(UrlAbsolute), !.method = Str(<<"g","e","t">>),
                     !.headers = Headers(<<>>)],
    [NoConfig EXCEPT !.url = Str(UrlRelative), !.method = Str(<<"P","o","s","t">>),
                     !.headers = Headers(JSON), !.data = PlainObject,
                     !.logAs = Str(<<"u","s","e","r">>)],
    [NoConfig EXCEPT !.url = Str(UrlRelative), !.method = Str(<<"p","u","t">>),
                     !.headers = Headers(<<>>), !.data = Str(<<"h","i">>),
                     !.logAs = Str(<<"A","/","b">>)],
    [NoConfig EXCEPT !.url = Str(UrlAbsolute), !.headers = Headers(<<>>),
                     !.data = CyclicObject, !.logAs = Str(<<>>)],
    [NoConfig EXCEPT !.url = Str(UrlAbsolute), !.method = Str(<<"g","e","t">>),
                     !.headers = Headers(<<>>), !.skipLog = TRUE],
    [NoConfig EXCEPT !.url = Str(UrlRoot), !.method = Str(<<"g","e","t">>),
                     !.headers = Headers(<<>>)],
    \* a configuration sent again after a prior pass stamped it (a retry)
    [NoConfig EXCEPT !.url = Str(UrlAbsolute), !.method = Str(<<"g","e","t">>),
                     !.headers = Headers(<<>>),
                     !._logPath = Str(sanitize(UrlRelative)),
                     !._logStartTime = <<FirstNow>>] }

NoResponse ==
  [present |-> FALSE, status |-> Undefined, statusText |-> Undefined,
   headers |-> Undefined, data |-> Undefined]

Response(status, text, ct, data) ==
  [present |-> TRUE, status |-> Num(status), statusText |-> Str(text),
   headers |-> Headers(ct), data |-> data]

OK == <<"O","K">>

\* the responses the client hands to the post-response hook
Responses ==
  { Response(200, OK, JSON, PlainObject),
    Response(200, OK, JSON, Null),
    Response(200, OK, HTML, Str(<<"<","!","d">>)),
    Response(200, OK, HTML, PlainObject),
    Response(200, OK, HTML, CyclicObject),
    Response(200, OK, <<>>, Str(<<"h","i">>)),
    Response(200, OK, <<>>, Str(<<" ","{","}">>)),
    Response(204, OK, <<>>, Undefined),
    Response(200, OK, <<>>, CyclicObject) }

NoError ==
  [message |-> Undefined, code |-> Undefined, hasConfig |-> FALSE,
   response |-> NoResponse]

Failed == <<"f","a","i","l">>
ECODE  == <<"E","R","R">>

\* the errors the client hands to the on-error hook
Errors ==
  { [message |-> Str(Failed), code |-> Str(ECODE), hasConfig |-> TRUE,
     response |-> Response(500, Failed, JSON, PlainObject)],
    [message |-> Str(Failed), code |-> Str(ECODE), hasConfig |-> TRUE,
     response |-> NoResponse],
    [message |-> Str(Failed), code |-> Undefined, hasConfig |-> FALSE,
     response |-> NoResponse],
    [message |-> Str(Failed), code |-> Str(ECODE), hasConfig |-> TRUE,
     response |-> Response(500, Failed, <<>>, CyclicObject)] }

----------------------------------------------------------------------------
(* createAxiosLogger.ts: what the hooks compute *)

\* getHostname()
getHostname == sanitize(OsHostname)

\* a hook that overlooks the skip flag
SkipLogIgnored(c) == FALSE

\* if (config.skipLog)
SkipLog(c) == c.skipLog

\* Math.floor(Date.now() / 1000)
Timestamp(t) == t \div 1000

\* config.logAs || config._logPath || getPathFromUrl(config.url || '')
RequestPath(c) ==
  Or(c.logAs, Or(c._logPath, Str(getPathFromUrl(Or(c.url, Str(<<>>)).v)))).v

\* config._logPath || fallback
RecoveredPath(c, fallback) == Or(c._logPath, Str(fallback)).v

\* config._logStartTime ? Date.now() - config._logStartTime : undefined
Duration(c, t) ==
  IF c._logStartTime # <<>> /\ c._logStartTime[1] # 0
  THEN Num(t - c._logStartTime[1]) ELSE Undefined

\* config.method?.toUpperCase()
MethodUpper(c) ==
  IF IsString(c.method) THEN Str(toUpperCase(c.method.v)) ELSE Undefined

NamingParams(t, host, c, path, kind) ==
  [ts |-> Timestamp(t), hostname |-> host, url |-> Or(c.url, Str(<<>>)).v,
   path |-> path, kind |-> kind]

reqData(c) ==
  << <<"url", c.url>>, <<"method", MethodUpper(c)>>,
     <<"headers", c.headers>>, <<"data", c.data>> >>

resMeta(r, duration) ==
  << <<"status", r.status>>, <<"statusText", r.statusText>>,
     <<"headers", r.headers>>, <<"duration", duration>> >>

errData(x, duration) ==
  << <<"message", x.message>>, <<"code", x.code>>,
     <<"status", x.response.status>>, <<"statusText", x.response.statusText>>,
     <<"headers", x.response.headers>>, <<"duration", duration>>,
     <<"data", x.response.data>> >>

ResSuffix     == <<"_","r","e","s",".","j","s","o","n">>
ResDataSuffix == <<"_","r","e","s","_","d","a","t","a",".","j","s","o","n">>

\* metaFilepath.replace('_res.json', '_res_data.json')
DataFilepath(metaFilepath) == replaceFirst(metaFilepath, ResSuffix, ResDataSuffix)

\* typeof res.data === 'string' ? res.data : JSON.stringify(res.data, null, 2)
BodyContent(data) ==
  IF IsString(data) THEN [threw |-> FALSE, text |-> RawText(data.v)]
  ELSE JSONstringifyValue(data)

----------------------------------------------------------------------------
(* State *)

VARIABLES
  options,   \* the factory's closure: [dir, filename]
  host,      \* the factory's closure: getHostname()
  now,       \* Date.now()
  config,    \* config[e]: the configuration object of exchange e
  submitted, \* submitted[e]: config[e] as the caller handed it to the client
  pc,        \* pc[e]: where exchange e stands
  res,       \* res[e]: the response handed to the post-response hook
  err,       \* err[e]: the error handed to the on-error hook
  locals,    \* locals[e]: the running hook's metaFilepath, bodyFilepath, bodyExt
  pending,   \* pending[e]: the saveLog call in progress, [path, content]
  writes,    \* writes[e]: the saveLog calls made for e, in order
  faults,    \* faults[e]: a mkdir or writeFile of e has failed
  result,    \* result[e]: how the hooks of e have settled
  files,     \* the filesystem: path -> content
  dirs,      \* the filesystem: the directories that exist
  named,     \* named[e]: the records the hooks of e passed to the naming function
  args,      \* the arguments of a helper called on its own
  returns    \* what the calls of that helper returned, in order

vars == <<options, host, now, config, submitted, pc, res, err, locals, pending, writes,
          faults, result, files, dirs, named, args, returns>>

Pending == <<"pending", "">>
Resolved(val) == <<"resolved", val>>
Rejected(val) == <<"rejected", val>>

NoLocals == [metaFilepath |-> <<>>, bodyFilepath |-> <<>>, bodyExt |-> <<>>]
NoCall == [path |-> <<>>, content |-> <<>>]

MkdirStages == {"req_mkdir", "res_meta_mkdir", "res_body_mkdir", "err_mkdir"}

WriteStage(stage) ==
  CASE stage = "req_mkdir" -> "req_write"
    [] stage = "res_meta_mkdir" -> "res_meta_write"
    [] stage = "res_body_mkdir" -> "res_body_write"
    [] stage = "err_mkdir" -> "err_write"

HookOf(stage) ==
  CASE stage \in {"req_mkdir", "req_write"} -> "request"
    [] stage \in {"err_mkdir", "err_write"} -> "error"
    [] OTHER -> "response"

RECURSIVE Ancestors(_)
\* mkdir(dir, { recursive: true }) creates dir and every missing ancestor
Ancestors(d) ==
  IF d \in {<<".">>, <<"/">>} THEN {d} ELSE {d} \cup Ancestors(dirname(d))

\* the factory has run, no exchange has begun
InitHooks ==
  /\ options \in [dir : Dirs, filename : FilenameFunctions]
  /\ host = getHostname
  /\ now = FirstNow
  /\ config = [e \in Exchanges |-> NoConfig]
  /\ submitted = [e \in Exchanges |-> NoConfig]
  /\ pc = [e \in Exchanges |-> "absent"]
  /\ res = [e \in Exchanges |-> NoResponse]
  /\ err = [e \in Exchanges |-> NoError]
  /\ locals = [e \in Exchanges |-> NoLocals]
  /\ pending = [e \in Exchanges |-> NoCall]
  /\ writes = [e \in Exchanges |-> <<>>]
  /\ faults = [e \in Exchanges |-> FALSE]
  /\ result = [e \in Exchanges |-> [request |-> Pending, hook |-> "none", settle |-> Pending]]
  /\ files = <<>>
  /\ dirs = {<<".">>}
  /\ named = [e \in Exchanges |-> <<>>]

Init ==
  /\ InitHooks
  /\ args = <<>>
  /\ returns = <<>>

hookVars == <<options, host, now, config, submitted, pc, res, err, locals, pending, writes,
              faults, result, files, dirs, named>>

----------------------------------------------------------------------------
(* The client and the clock *)

\* the client makes configuration c the configuration object of exchange e
Accept(e, c) ==
  /\ pc[e] = "absent"
  /\ config' = [config EXCEPT ![e] = c]
  /\ submitted' = [submitted EXCEPT ![e] = c]
  /\ pc' = [pc EXCEPT ![e] = "initial"]
  /\ UNCHANGED <<args, returns, options, host, now, res, err, locals, pending, writes, faults,
                 result, files, dirs, named>>

\* the client takes a new request configuration, no other exchange in flight
Submit(e) ==
  /\ \A d \in Exchanges \ {e} : pc[d] = "absent"
  /\ \E c \in Configs : Accept(e, c)

Tick ==
  /\ now < MaxNow
  /\ now' = now + 1
  /\ UNCHANGED <<args, returns, options, host, config, submitted, pc, res, err, locals, pending, writes,
                 faults, result, files, dirs, named>>

----------------------------------------------------------------------------
(* saveLog *)

\* saveLog(filepath, content) is called by hook h of exchange e: mkdir is issued
CallSaveLog(e, h, filepath, content, stage) ==
  /\ pending' = [pending EXCEPT ![e] = [path |-> filepath, content |-> content]]
  /\ writes' = [writes EXCEPT
                  ![e] = Append(@, [hook |-> h, path |-> filepath, content |-> content])]
  /\ pc' = [pc EXCEPT ![e] = stage]

\* the running hook of e ends with outcome out
Settle(e, h, out) ==
  IF h = "request"
  THEN result' = [result EXCEPT ![e].request = out]
  ELSE result' = [result EXCEPT ![e].hook = h, ![e].settle = out]

\* await mkdir(dir, { recursive: true }).catch(() => {})
MkdirSettled(e) ==
  /\ pc[e] \in MkdirStages
  /\ \E ok \in BOOLEAN :
       /\ dirs' = IF ok THEN dirs \cup Ancestors(dirname(pending[e].path)) ELSE dirs
       /\ faults' = [faults EXCEPT ![e] = @ \/ ~ok]
       /\ IF Caught(ok) = "fulfilled"
          THEN /\ pc' = [pc EXCEPT ![e] = WriteStage(pc[e])]
               /\ UNCHANGED result
          ELSE /\ pc' = [pc EXCEPT ![e] = IF HookOf(pc[e]) = "request" THEN "failed" ELSE "done"]
               /\ Settle(e, HookOf(pc[e]), Rejected("fsError"))
  /\ UNCHANGED <<args, returns, options, host, now, config, submitted, res, err, locals, pending, writes,
                 files, named>>

\* a write that appends to what the file held
Merged(fs, filepath, content) ==
  [p \in DOMAIN fs \cup {filepath} |->
     IF p # filepath THEN fs[p]
     ELSE IF p \in DOMAIN fs THEN fs[p] \o content ELSE content]

\* writeFile(filepath, content): the file holds content, fully overwritten
Written(fs, filepath, content) ==
  [p \in DOMAIN fs \cup {filepath} |-> IF p = filepath THEN content ELSE fs[p]]

\* the outcomes writeFile can have for the call in progress
CanWrite(e, ok) ==
  ok => dirname(pending[e].path) \in dirs /\ IsWritable(pending[e].content)

\* await writeFile(filepath, content).catch(() => {}), for a hook's last saveLog
LastWriteSettled(e, stage, h, out, after) ==
  /\ pc[e] = stage
  /\ \E ok \in BOOLEAN :
       /\ CanWrite(e, ok)
       /\ files' = IF ok THEN Written(files, pending[e].path, pending[e].content) ELSE files
       /\ faults' = [faults EXCEPT ![e] = @ \/ ~ok]
       /\ IF Caught(ok) = "fulfilled"
          THEN /\ pc' = [pc EXCEPT ![e] = after]
               /\ Settle(e, h, out)
          ELSE /\ pc' = [pc EXCEPT ![e] = IF h = "request" THEN "failed" ELSE "done"]
               /\ Settle(e, h, Rejected("fsError"))
  /\ UNCHANGED <<args, returns, options, host, now, config, submitted, res, err, locals, pending, writes,
                 dirs, named>>

----------------------------------------------------------------------------
(* createAxiosLogger.ts: the three hooks *)

ResponseLiteral == <<"r","e","s","p","o","n","s","e">>
ErrorLiteral    == <<"e","r","r","o","r">>

\* filenameFn({ ...params, ext }) is called by hook h of exchange e, once per ext
CallFilename(e, h, params, exts) ==
  named' = [named EXCEPT ![e] = @ \o
              [i \in 1..Len(exts) |->
                 [hook |-> h, ts |-> params.ts, hostname |-> params.hostname,
                  url |-> params.url, path |-> params.path, kind |-> params.kind,
                  ext |-> exts[i]]]]

\* the pre-request hook, up to its await of saveLog
request(e) ==
  /\ pc[e] = "initial"
  /\ LET c == config[e] IN
     IF SkipLog(c)
     THEN /\ pc' = [pc EXCEPT ![e] = "sent"]
          /\ Settle(e, "request", Resolved("config"))
          /\ UNCHANGED <<config, pending, writes, named>>
     ELSE LET path     == RequestPath(c)
              params   == NamingParams(now, host, c, path, REQ)
              filepath == buildFilepath(options.dir, options.filename, params, JSON)
              text     == JSONstringify(reqData(c))
          IN  /\ config' = [config EXCEPT ![e]._logPath = Str(path),
                                          ![e]._logStartTime = <<now>>]
              /\ CallFilename(e, "request", params, <<JSON>>)
              /\ IF text.threw
                 THEN /\ pc' = [pc EXCEPT ![e] = "failed"]
                      /\ Settle(e, "request", Rejected("TypeError"))
                      /\ UNCHANGED <<pending, writes>>
                 ELSE /\ CallSaveLog(e, "request", filepath, text.text, "req_mkdir")
                      /\ UNCHANGED result
  /\ UNCHANGED <<args, returns, options, host, now, submitted, res, err, locals, faults, files, dirs>>

\* the pre-request hook after its saveLog: return config
requestWritten(e) ==
  LastWriteSettled(e, "req_write", "request", Resolved("config"), "sent")

\* the post-response hook called with response r, up to its first await of saveLog
responseHook(e, r) ==
       /\ res' = [res EXCEPT ![e] = r]
       /\ LET c == config[e] IN
          IF SkipLog(c)
          THEN /\ pc' = [pc EXCEPT ![e] = "done"]
               /\ Settle(e, "response", Resolved("response"))
               /\ UNCHANGED <<locals, pending, writes, named>>
          ELSE LET path     == RecoveredPath(c, ResponseLiteral)
                   duration == Duration(c, now)
                   params   == NamingParams(now, host, c, path, RES)
                   metaFilepath == buildFilepath(options.dir, options.filename, params, JSON)
                   bodyExt  == detectExt(r.data, r.headers)
                   bodyFilepath == buildFilepath(options.dir, options.filename, params, bodyExt)
                   text     == JSONstringify(resMeta(r, duration))
               IN  /\ CallFilename(e, "response", params, <<JSON, bodyExt>>)
                   /\ locals' = [locals EXCEPT ![e] =
                                   [metaFilepath |-> metaFilepath,
                                    bodyFilepath |-> bodyFilepath,
                                    bodyExt |-> bodyExt]]
                   /\ IF text.threw
                      THEN /\ pc' = [pc EXCEPT ![e] = "done"]
                           /\ Settle(e, "response", Rejected("TypeError"))
                           /\ UNCHANGED <<pending, writes>>
                      ELSE /\ CallSaveLog(e, "response", metaFilepath, text.text,
                                          "res_meta_mkdir")
                           /\ UNCHANGED result
       /\ UNCHANGED <<args, returns, options, host, now, config, submitted, err, faults, files, dirs>>

\* a caller holding the hooks calls the post-response hook
response(e) ==
  /\ pc[e] \in {"initial", "sent"}
  /\ \E r \in Responses : responseHook(e, r)

\* the post-response hook after the metadata saveLog: the body, or return res
metaWritten(e) ==
  /\ pc[e] = "res_meta_write"
  /\ \E ok \in BOOLEAN :
       /\ CanWrite(e, ok)
       /\ files' = IF ok THEN Written(files, pending[e].path, pending[e].content) ELSE files
       /\ faults' = [faults EXCEPT ![e] = @ \/ ~ok]
       /\ LET r == res[e]
              l == locals[e]
              body == IF l.bodyExt # JSON THEN BodyContent(r.data)
                      ELSE JSONstringifyValue(r.data)
              bodypath == IF l.bodyExt # JSON THEN l.bodyFilepath
                          ELSE DataFilepath(l.metaFilepath)
          IN  IF Caught(ok) # "fulfilled"
              THEN /\ pc' = [pc EXCEPT ![e] = "done"]
                   /\ Settle(e, "response", Rejected("fsError"))
                   /\ UNCHANGED <<pending, writes>>
              ELSE IF l.bodyExt = JSON /\ ~Truthy(r.data)
              THEN /\ pc' = [pc EXCEPT ![e] = "done"]
                   /\ Settle(e, "response", Resolved("response"))
                   /\ UNCHANGED <<pending, writes>>
              ELSE IF body.threw
              THEN /\ pc' = [pc EXCEPT ![e] = "done"]
                   /\ Settle(e, "response", Rejected("TypeError"))
                   /\ UNCHANGED <<pending, writes>>
              ELSE /\ CallSaveLog(e, "response", bodypath, body.text, "res_body_mkdir")
                   /\ UNCHANGED result
  /\ UNCHANGED <<args, returns, options, host, now, config, submitted, res, err, locals, dirs, named>>

\* the post-response hook after the body saveLog: return res
bodyWritten(e) ==
  LastWriteSettled(e, "res_body_write", "response", Resolved("response"), "done")

\* the on-error hook called with error x, up to its await of saveLog
errorHook(e, x) ==
       /\ err' = [err EXCEPT ![e] = x]
       /\ LET c == IF x.hasConfig THEN config[e] ELSE NoConfig IN
          IF SkipLog(c)
          THEN /\ pc' = [pc EXCEPT ![e] = "done"]
               /\ Settle(e, "error", Rejected("error"))
               /\ UNCHANGED <<pending, writes, named>>
          ELSE LET path     == RecoveredPath(c, ErrorLiteral)
                   duration == Duration(c, now)
                   params   == NamingParams(now, host, c, path, ERR)
                   filepath == buildFilepath(options.dir, options.filename, params, JSON)
                   text     == JSONstringify(errData(x, duration))
               IN  /\ CallFilename(e, "error", params, <<JSON>>)
                   /\ IF text.threw
                      THEN /\ pc' = [pc EXCEPT ![e] = "done"]
                           /\ Settle(e, "error", Rejected("TypeError"))
                           /\ UNCHANGED <<pending, writes>>
                      ELSE /\ CallSaveLog(e, "error", filepath, text.text, "err_mkdir")
                           /\ UNCHANGED result
       /\ UNCHANGED <<args, returns, options, host, now, config, submitted, res, locals, faults, files, dirs>>

\* a caller holding the hooks calls the on-error hook
error(e) ==
  /\ pc[e] \in {"initial", "sent"}
  /\ \E x \in Errors : errorHook(e, x)

\* the on-error hook after its saveLog: return Promise.reject(err)
errorWritten(e) ==
  LastWriteSettled(e, "err_write", "error", Rejected("error"), "done")

----------------------------------------------------------------------------
(* Specification *)

Next ==
  \/ \E e \in Exchanges : Submit(e)
  \/ \E e \in Exchanges : request(e)
  \/ \E e \in Exchanges : requestWritten(e)
  \/ \E e \in Exchanges : response(e)
  \/ \E e \in Exchanges : metaWritten(e)
  \/ \E e \in Exchanges : bodyWritten(e)
  \/ \E e \in Exchanges : error(e)
  \/ \E e \in Exchanges : errorWritten(e)
  \/ \E e \in Exchanges : MkdirSettled(e)
  \/ Tick

Spec == Init /\ [][Next]_vars

----------------------------------------------------------------------------
(* Vocabulary of the properties *)

SaveLogStages ==
  MkdirStages \cup {"req_write", "res_meta_write", "res_body_write", "err_write"}

\* the saveLog calls hook h has made for exchange e, in order
HookWrites(e, h) == SelectSeq(writes[e], LAMBDA w : w.hook = h)

RequestEnded(e)  == result[e].request # Pending
ResponseEnded(e) == result[e].hook = "response"
ErrorEnded(e)    == result[e].hook = "error"

\* the configuration the on-error hook of e received: err.config
ErrorConfig(e) == IF err[e].hasConfig THEN config[e] ELSE NoConfig

EndsWith(s, suffix) ==
  Len(s) >= Len(suffix) /\ SubSeq(s, Len(s) - Len(suffix) + 1, Len(s)) = suffix

\* s with its suffix old substituted by new
SwapSuffix(s, old, new) == SubSeq(s, 1, Len(s) - Len(old)) \o new

\* the path the factory builds at time t for a path identifier, kind and extension
BuiltPath(t, c, path, kind, ext) ==
  options.dir \o <<"/">> \o
    ApplyFilename(options.filename,
                  [ts |-> t \div 1000, hostname |-> sanitize(OsHostname),
                   url |-> IF IsString(c.url) THEN c.url.v ELSE <<>>,
                   path |-> path, kind |-> kind, ext |-> ext])

\* the first of {logAs, a path set by a prior pass, the sanitized path of the URL}
FirstPath(c) ==
  IF Truthy(c.logAs) THEN c.logAs.v
  ELSE IF Truthy(c._logPath) THEN c._logPath.v
  ELSE getPathFromUrl(IF IsString(c.url) THEN c.url.v ELSE <<>>)

\* the stamped path, or the literal when no path is stamped
StampedPathOr(c, literal) == IF IsString(c._logPath) THEN c._logPath.v ELSE literal

----------------------------------------------------------------------------
(* C1 .. C10 *)

\* C1: when the configuration a hook receives carries skipLog, the hook makes no
\* Log Writer write (no directory created, no file written), leaves _logPath and
\* _logStartTime unset and passes its input through: the pre-request hook
\* resolves with the configuration, the post-response hook with the response,
\* the on-error hook rejects with the error.
C1_SkipLogPassesThrough ==
  /\ \A e \in Exchanges :
       submitted[e].skipLog =>
         /\ config[e] = submitted[e]
         /\ config[e]._logPath = Undefined /\ config[e]._logStartTime = <<>>
         /\ result[e].request \in {Pending, Resolved("config")}
         /\ ResponseEnded(e) => result[e].settle = Resolved("response")
         /\ ErrorEnded(e) /\ err[e].hasConfig => result[e].settle = Rejected("error")
         /\ (err[e] = NoError \/ err[e].hasConfig) =>
              writes[e] = <<>> /\ pc[e] \notin SaveLogStages
  /\ (\A e \in Exchanges : writes[e] = <<>>) => files = <<>> /\ dirs = {<<".">>}

C1_Witness ==
  \E e \in Exchanges :
    /\ submitted[e].skipLog
    /\ result[e].request = Resolved("config")
    /\ ErrorEnded(e) /\ err[e].hasConfig
    /\ result[e].settle = Rejected("error")
    /\ files = <<>>

\* C2: the on-error hook always ends by rejecting with the original error value,
\* whatever the error carries.
C2_ErrorHookRejectsOriginal ==
  \A e \in Exchanges : ErrorEnded(e) => result[e].settle = Rejected("error")

\* C3: whatever the outcomes of mkdir and writeFile, saveLog signals no failure
\* and the hook that called it ends as it would had the writes succeeded: it
\* passes its input through, unless serializing its own input threw.
C3_PersistenceFailuresSwallowed ==
  \A e \in Exchanges :
    /\ RequestEnded(e) =>
         \/ result[e].request = Resolved("config")
         \/ /\ result[e].request = Rejected("TypeError")
            /\ JSONstringify(reqData(submitted[e])).threw
    /\ ResponseEnded(e) =>
         \/ result[e].settle = Resolved("response")
         \/ /\ result[e].settle = Rejected("TypeError")
            /\ IsCyclic(res[e].data)
    /\ ErrorEnded(e) =>
         \/ result[e].settle = Rejected("error")
         \/ /\ result[e].settle = Rejected("TypeError")
            /\ IsCyclic(err[e].response.data)
    /\ pc[e] = "res_body_mkdir" => Len(HookWrites(e, "response")) = 2

C3_Witness ==
  \E e \in Exchanges :
    /\ faults[e]
    /\ files = <<>>
    /\ result[e].request = Resolved("config")
    /\ ResponseEnded(e) /\ result[e].settle = Resolved("response")
    /\ Len(writes[e]) = 3

\* C4: for every configuration without skipLog the pre-request hook makes exactly
\* one Log Writer write, to the path built with kind=req and extension=json, of
\* a JSON document holding url, the method uppercased, headers and data.
C4_RequestWritesOneDocument ==
  \A e \in Exchanges :
    RequestEnded(e) /\ ~submitted[e].skipLog =>
      LET ws == HookWrites(e, "request")
          c  == submitted[e]
      IN  /\ Len(ws) = 1
          /\ config[e]._logStartTime # <<>>
          /\ ws[1].path = BuiltPath(config[e]._logStartTime[1], c, FirstPath(c), REQ, JSON)
          /\ Property(ws[1].content, "url") = c.url
          /\ Property(ws[1].content, "method") =
               (IF IsString(c.method) THEN Str(toUpperCase(c.method.v)) ELSE Undefined)
          /\ Property(ws[1].content, "headers") = c.headers
          /\ Property(ws[1].content, "data") = c.data

\* C5: for every configuration without skipLog the pre-request hook resolves with
\* the same configuration, having changed only _logPath (the first of logAs, an
\* already-set path, the sanitized URL path) and _logStartTime (the current time).
C5_RequestStampsOnly ==
  \A e \in Exchanges :
    RequestEnded(e) /\ ~submitted[e].skipLog =>
      /\ result[e].request = Resolved("config")
      /\ config[e]._logStartTime # <<>>
      /\ config[e]._logStartTime[1] \in FirstNow..now
      /\ config[e] = [submitted[e] EXCEPT !._logPath = Str(FirstPath(submitted[e])),
                                          !._logStartTime = config[e]._logStartTime]

\* C6: after the pre-request hook has run on a configuration without skipLog, the
\* stamped _logPath is a sanitized string, whichever source it came from.
C6_StampedPathSanitized ==
  \A e \in Exchanges :
    RequestEnded(e) /\ ~submitted[e].skipLog =>
      IsString(config[e]._logPath) /\ IsSanitized(config[e]._logPath.v)

\* C7: for every response without skipLog classified json whose body is present,
\* the post-response hook writes the body to the sibling path that has the
\* metadata path's _res.json suffix substituted by _res_data.json, and the
\* metadata path still holds the metadata document when the hook has ended.
C7_JsonBodySavedBesideMetadata ==
  \A e \in Exchanges :
    /\ ResponseEnded(e)
    /\ ~config[e].skipLog
    /\ detectExt(res[e].data, res[e].headers) = JSON
    /\ Truthy(res[e].data)
    => LET ws == HookWrites(e, "response") IN
       /\ Len(ws) = 2
       /\ EndsWith(ws[1].path, ResSuffix)
       /\ ws[2].path = SwapSuffix(ws[1].path, ResSuffix, ResDataSuffix)
       /\ ws[2].content = << <<"", res[e].data.t, res[e].data.v>> >>
       /\ Property(ws[1].content, "status") = res[e].status
       /\ ws[1].path \in DOMAIN files => files[ws[1].path] = ws[1].content

\* C8: for every response without skipLog classified html or txt, the
\* post-response hook writes, besides the _res.json metadata, a second file at
\* the path built with kind=res and the classified extension, holding the body
\* as-is when it is a string and its JSON serialization otherwise.
C8_NonJsonBodyWritten ==
  \A e \in Exchanges :
    /\ ResponseEnded(e)
    /\ ~config[e].skipLog
    /\ detectExt(res[e].data, res[e].headers) # JSON
    => LET ws   == HookWrites(e, "response")
           c    == config[e]
           ext  == detectExt(res[e].data, res[e].headers)
           path == IF Truthy(c._logPath) THEN c._logPath.v ELSE ResponseLiteral
       IN  /\ Len(ws) = 2
           /\ \E t \in FirstNow..now :
                /\ ws[1].path = BuiltPath(t, c, path, RES, JSON)
                /\ ws[2].path = BuiltPath(t, c, path, RES, ext)
           /\ ws[2].content =
                (IF IsString(res[e].data) THEN RawText(res[e].data.v)
                 ELSE IF res[e].data = Undefined THEN NotAString
                 ELSE << <<"", res[e].data.t, res[e].data.v>> >>)

\* C9: for every response without skipLog the post-response hook writes the
\* metadata document (status, statusText, headers, duration) to the path built
\* with kind=res, extension=json and the stamped _logPath, or "response" when no
\* path is stamped; duration is the time elapsed since _logStartTime, >= 0, and
\* undefined when none is stamped; the hook resolves with the response.
C9_ResponseMetadataWritten ==
  \A e \in Exchanges :
    ResponseEnded(e) /\ ~config[e].skipLog =>
      LET ws == HookWrites(e, "response")
          c  == config[e]
      IN  /\ result[e].settle = Resolved("response")
          /\ Len(ws) >= 1
          /\ Property(ws[1].content, "status") = res[e].status
          /\ Property(ws[1].content, "statusText") = res[e].statusText
          /\ Property(ws[1].content, "headers") = res[e].headers
          /\ \E t \in FirstNow..now :
               /\ ws[1].path =
                    BuiltPath(t, c, StampedPathOr(c, ResponseLiteral), RES, JSON)
               /\ IF c._logStartTime = <<>>
                  THEN Property(ws[1].content, "duration") = Undefined
                  ELSE /\ t >= c._logStartTime[1]
                       /\ Property(ws[1].content, "duration") = Num(t - c._logStartTime[1])

\* C10: for every error without skipLog the on-error hook makes exactly one Log
\* Writer write, to the path built with kind=err, extension=json and the stamped
\* _logPath, or "error" when none is stamped, of a JSON document holding message,
\* code, duration and, with a partial response, its status, statusText, headers
\* and body.
C10_ErrorDocumentWritten ==
  \A e \in Exchanges :
    ErrorEnded(e) /\ ~ErrorConfig(e).skipLog =>
      LET ws == HookWrites(e, "error")
          c  == ErrorConfig(e)
          x  == err[e]
      IN  /\ Len(ws) = 1
          /\ Property(ws[1].content, "message") = x.message
          /\ Property(ws[1].content, "code") = x.code
          /\ x.response.present =>
               /\ Property(ws[1].content, "status") = x.response.status
               /\ Property(ws[1].content, "statusText") = x.response.statusText
               /\ Property(ws[1].content, "headers") = x.response.headers
               /\ Property(ws[1].content, "data") = x.response.data
          /\ \E t \in FirstNow..now :
               /\ ws[1].path = BuiltPath(t, c, StampedPathOr(c, ErrorLiteral), ERR, JSON)
               /\ IF c._logStartTime = <<>>
                  THEN Property(ws[1].content, "duration") = Undefined
                  ELSE /\ t >= c._logStartTime[1]
                       /\ Property(ws[1].content, "duration") = Num(t - c._logStartTime[1])

----------------------------------------------------------------------------
(* C11, C19: the Exchange Identity across the hooks of one exchange *)

\* the records hook h of exchange e passed to the naming function, in order
NamedBy(e, h) == SelectSeq(named[e], LAMBDA n : n.hook = h)

\* the records the post-response or on-error hook of e passed to the naming function
NamedLater(e) == SelectSeq(named[e], LAMBDA n : n.hook # "request")

\* C11: the request artifact and the response or error artifacts of one
\* non-skipped exchange are named from the same timestamp (seconds), the same
\* host and the same path, whatever time elapses between the two hooks.
C11_IdentityComputedOnce ==
  \A e \in Exchanges :
    NamedBy(e, "request") # <<>> =>
      \A i \in 1..Len(NamedLater(e)) :
        /\ NamedLater(e)[i].ts = NamedBy(e, "request")[1].ts
        /\ NamedLater(e)[i].hostname = NamedBy(e, "request")[1].hostname
        /\ NamedLater(e)[i].path = NamedBy(e, "request")[1].path

\* C19: the path identifier the paired post-response or on-error hook passes to
\* the naming function equals the one the pre-request hook passed to it.
C19_PathIdentifierKept ==
  \A e \in Exchanges :
    NamedBy(e, "request") # <<>> =>
      \A i \in 1..Len(NamedLater(e)) :
        NamedLater(e)[i].path = NamedBy(e, "request")[1].path

----------------------------------------------------------------------------
(* C18: the failures that reach the caller *)

\* hook h of exchange e failed towards the caller
HookFailed(e, h) ==
  CASE h = "request"  -> result[e].request[1] = "rejected"
    [] h = "response" -> ResponseEnded(e) /\ result[e].settle[1] = "rejected"
    [] h = "error"    -> ErrorEnded(e) /\ result[e].settle # Rejected("error")

\* the metadata document of hook h of exchange e cannot be JSON-serialized
MetadataUnserializable(e, h) ==
  CASE h = "request"  -> JSONstringify(reqData(config[e])).threw
    [] h = "response" -> JSONstringify(resMeta(res[e], Undefined)).threw
    [] h = "error"    -> JSONstringify(errData(err[e], Undefined)).threw

\* C18: a pre-request or post-response hook rejects, or an on-error hook rejects
\* with something other than the original error, only when the JSON
\* serialization of that hook's metadata document (request metadata, response
\* metadata, error document) fails.
C18_OnlyMetadataSerializationFails ==
  \A e \in Exchanges : \A h \in {"request", "response", "error"} :
    HookFailed(e, h) => MetadataUnserializable(e, h)

----------------------------------------------------------------------------
(* attachLogger: the hooks driven by the client's interceptor chain.  The   *)
(* chain is request hook, dispatch, then response.use(response, error): a  *)
(* fulfilled step feeds the next fulfilled handler, a rejected step the     *)
(* next rejected handler, so a rejection of the request hook skips the      *)
(* dispatch and arrives at the on-error hook.                               *)

\* the TypeError JSON.stringify throws: a message, no code, no config, no response
SerializationError ==
  [message |-> Str(<<"c","i","r","c","u","l","a","r">>), code |-> Undefined,
   hasConfig |-> FALSE, response |-> NoResponse]

\* the errors the dispatch rejects with: they carry the exchange's configuration
DispatchErrors == {x \in Errors : x.hasConfig}

\* instance.interceptors.request.use(interceptors.request)
interceptRequest(e) == request(e)

\* the dispatch fulfilled: interceptors.response runs
dispatchFulfilled(e) ==
  /\ pc[e] = "sent"
  /\ \E r \in Responses : responseHook(e, r)

\* the dispatch rejected: interceptors.error runs
dispatchRejected(e) ==
  /\ pc[e] = "sent"
  /\ \E x \in DispatchErrors : errorHook(e, x)

\* the request hook rejected: the dispatch is skipped, interceptors.error runs
requestRejected(e) ==
  /\ pc[e] = "failed"
  /\ err[e] = NoError
  /\ errorHook(e, SerializationError)

NextAttached ==
  \/ \E e \in Exchanges : Submit(e)
  \/ \E e \in Exchanges : interceptRequest(e)
  \/ \E e \in Exchanges : requestWritten(e)
  \/ \E e \in Exchanges : dispatchFulfilled(e)
  \/ \E e \in Exchanges : dispatchRejected(e)
  \/ \E e \in Exchanges : requestRejected(e)
  \/ \E e \in Exchanges : metaWritten(e)
  \/ \E e \in Exchanges : bodyWritten(e)
  \/ \E e \in Exchanges : errorWritten(e)
  \/ \E e \in Exchanges : MkdirSettled(e)
  \/ Tick

SpecAttached == Init /\ [][NextAttached]_vars

\* the post-response or on-error hook of e has been called
LaterHookCalled(e) == res[e] # NoResponse \/ err[e] # NoError

\* C16: with the hooks registered by attachLogger, every non-skipped exchange
\* goes initial -> request-logged -> (response-logged | error-logged): when the
\* post-response or on-error hook is called, the pre-request hook has returned
\* the configuration after its one request artifact write finished; only one of
\* the two later hooks is called, and each hook names its artifacts at most once.
C16_ExchangeLifecycle ==
  \A e \in Exchanges :
    ~submitted[e].skipLog =>
      /\ LaterHookCalled(e) =>
           /\ result[e].request = Resolved("config")
           /\ Len(HookWrites(e, "request")) = 1
           /\ ~(res[e] # NoResponse /\ err[e] # NoError)
      /\ Len(NamedBy(e, "request")) <= 1
      /\ Len(NamedBy(e, "response")) <= 2
      /\ Len(NamedBy(e, "error")) <= 1

----------------------------------------------------------------------------
(* Exchanges in flight concurrently: the client takes a new request while   *)
(* the hooks of another are suspended at their awaits.                      *)

ConcurrentConfigs ==
  { [NoConfig EXCEPT !.url = Str(UrlAbsolute), !.method = Str(<<"g","e","t">>),
                     !.headers = Headers(<<>>)],
    [NoConfig EXCEPT !.url = Str(UrlRelative), !.method = Str(<<"P","o","s","t">>),
                     !.headers = Headers(JSON), !.data = PlainObject,
                     !.logAs = Str(<<"u","s","e","r">>)] }

ConcurrentResponses ==
  { Response(200, OK, JSON, PlainObject),
    Response(200, OK, HTML, Str(<<"<","!","d">>)) }

ConcurrentErrors ==
  { [message |-> Str(Failed), code |-> Str(ECODE), hasConfig |-> TRUE,
     response |-> Response(500, Failed, JSON, PlainObject)] }

\* the client takes a request whatever the other exchanges are doing
submitConcurrent(e) == \E c \in ConcurrentConfigs : Accept(e, c)

responseConcurrent(e) ==
  /\ pc[e] = "sent"
  /\ \E r \in ConcurrentResponses : responseHook(e, r)

errorConcurrent(e) ==
  /\ pc[e] = "sent"
  /\ \E x \in ConcurrentErrors : errorHook(e, x)

\* the clock passes into the next second while exchanges are in flight
secondPasses == now = FirstNow /\ Tick

NextConcurrent ==
  \/ \E e \in Exchanges : submitConcurrent(e)
  \/ \E e \in Exchanges : request(e)
  \/ \E e \in Exchanges : requestWritten(e)
  \/ \E e \in Exchanges : responseConcurrent(e)
  \/ \E e \in Exchanges : metaWritten(e)
  \/ \E e \in Exchanges : bodyWritten(e)
  \/ \E e \in Exchanges : errorConcurrent(e)
  \/ \E e \in Exchanges : errorWritten(e)
  \/ \E e \in Exchanges : MkdirSettled(e)
  \/ secondPasses

SpecConcurrent == Init /\ [][NextConcurrent]_vars

WriteStages == {"req_write", "res_meta_write", "res_body_write", "err_write"}

\* the paths exchange e has called saveLog with
PathsOf(e) == {writes[e][i].path : i \in 1..Len(writes[e])}

\* the content of the last saveLog call of e for path p
LastContent(e, p) ==
  LET is == {i \in 1..Len(writes[e]) : writes[e][i].path = p}
  IN  writes[e][CHOOSE i \in is : \A j \in is : j <= i].content

\* every saveLog call of e has settled
Quiet(e) == pc[e] \notin SaveLogStages /\ pending[e] # NoCall

\* a step changes the configuration object of one exchange only, in its
\* pre-request hook, and only the bookkeeping fields
OwnBookkeepingOnly ==
  \A e \in Exchanges :
    config'[e] # config[e] =>
      /\ pc[e] \in {"absent", "initial"}
      /\ \A d \in Exchanges \ {e} : config'[d] = config[d]
      /\ pc[e] = "initial" =>
           config'[e] = [config[e] EXCEPT !._logPath = config'[e]._logPath,
                                          !._logStartTime = config'[e]._logStartTime]

\* a step changes the files only by one finishing write, which leaves its path
\* holding exactly its own content and every other path as it was
WholeOverwrite ==
  files' # files =>
    \E e \in Exchanges :
      /\ pc[e] \in WriteStages /\ pc'[e] # pc[e]
      /\ DOMAIN files' = DOMAIN files \cup {pending[e].path}
      /\ files'[pending[e].path] = pending[e].content
      /\ \A p \in DOMAIN files : p # pending[e].path => files'[p] = files[p]

\* the paths only e wrote hold the content e wrote there last
DistinctPathsKeepOwnContent ==
  \A e \in Exchanges :
    (Quiet(e) /\ ~faults[e]) =>
      \A p \in PathsOf(e) :
        (\A d \in Exchanges \ {e} : p \notin PathsOf(d)) =>
          p \in DOMAIN files /\ files[p] = LastContent(e, p)

----------------------------------------------------------------------------
(* The helpers of utils.ts called on their own.  args holds the arguments   *)
(* of the call, returns what each call returned; no exchange is in flight.  *)

\* the hooks of a factory with the default naming function are idle
HelperInit(inputs) ==
  /\ InitHooks
  /\ options.filename = "defaultFilename"
  /\ args \in inputs
  /\ returns = <<>>

\* the length of the strings composed character by character
MaxLen == 3

RECURSIVE StringsUpTo(_, _)
\* the strings over chars of length at most n
StringsUpTo(chars, n) ==
  IF n = 0 THEN {<<>>}
  ELSE LET shorter == StringsUpTo(chars, n - 1)
       IN  shorter \cup {Append(s, c) : s \in shorter, c \in chars}

----------------------------------------------------------------------------
(* C12: sanitize *)

SanitizeChars == {"a", "Z", "7", "_", "/", ":", "-"}

\* strings with and without a scheme, a repeated scheme among them
SanitizeInputs ==
  LET short == StringsUpTo(SanitizeChars, MaxLen)
  IN  short \cup {HttpPrefix \o s : s \in short} \cup {HttpsPrefix \o s : s \in short}
            \cup {HttpPrefix \o HttpsPrefix \o s : s \in short}
            \cup {<<"_">> \o HttpPrefix \o s : s \in short}

InitSanitize == HelperInit({<<s>> : s \in SanitizeInputs})

\* sanitize(s)
sanitizeCalled ==
  /\ returns = <<>>
  /\ returns' = <<sanitize(args[1])>>
  /\ UNCHANGED <<args, hookVars>>

\* sanitize(sanitize(s))
sanitizeAgain ==
  /\ Len(returns) = 1
  /\ returns' = Append(returns, sanitize(returns[1]))
  /\ UNCHANGED <<args, hookVars>>

NextSanitize == sanitizeCalled \/ sanitizeAgain

SpecSanitize == InitSanitize /\ [][NextSanitize]_vars

\* C12: sanitize(s) has only a-z, 0-9 and underscores, no leading, trailing or
\* repeated underscore; the empty string maps to the empty string; and
\* sanitize(sanitize(s)) = sanitize(s).
C12_SanitizeAlphabetIdempotent ==
  /\ Len(returns) >= 1 =>
       /\ IsSanitized(returns[1])
       /\ args[1] = <<>> => returns[1] = <<>>
  /\ Len(returns) = 2 => returns[2] = returns[1]

\* a string with a scheme, upper case and separators at both ends was sanitized
\* twice, to a non-empty result
C12_Witness ==
  /\ Len(returns) = 2
  /\ args[1] = HttpPrefix \o <<"/", "Z", "_">>
  /\ returns[1] = <<"z">>

----------------------------------------------------------------------------
(* C13: detectExt *)

TextHtml        == <<"t","e","x","t","/","h","t","m","l">>
ApplicationJson == <<"a","p","p","l","i","c","a","t","i","o","n","/","j","s","o","n">>
TextPlain       == <<"t","e","x","t","/","p","l","a","i","n">>
\* a content-type naming both
HtmlAndJson     == <<"j","s","o","n","+","h","t","m","l">>

\* a numeric header value
HeaderNumber == 42

DetectBodies ==
  { Str(<<"<","!","d">>), Str(<<"<","h","t","m","l">>), Str(<<"{","}">>), Str(<<"[","1">>),
    Str(<<" "," ","{","}">>), Str(<<" ","<","!","d"," ">>), Str(<<"h","i">>), Str(<<"x","{">>), Str(<<>>),
    PlainObject, CyclicObject, Num(HeaderNumber), Num(0), Bool(TRUE), Bool(FALSE),
    Null, Undefined }

\* no headers argument, no content-type entry, string entries, a number entry
DetectHeaders ==
  { Undefined, Headers(<<>>), Headers(TextHtml), Headers(ApplicationJson),
    Headers(TextPlain), Headers(HtmlAndJson), NumericHeaders(HeaderNumber) }

InitDetectExt == HelperInit(DetectBodies \X DetectHeaders)

\* detectExt(data, headers)
detectExtCalled ==
  /\ returns = <<>>
  /\ returns' = << IF detectExtThrows(args[1], args[2])
                   THEN [threw |-> TRUE, ext |-> <<>>]
                   ELSE [threw |-> FALSE, ext |-> detectExt(args[1], args[2])] >>
  /\ UNCHANGED <<args, hookVars>>

NextDetectExt == detectExtCalled

SpecDetectExt == InitDetectExt /\ [][NextDetectExt]_vars

\* the content-type entry as text, empty when it is absent or not a string
ContentTypeText(headers) == IF headers.t = "headers" THEN headers.v ELSE <<>>

\* a string body whose trimmed form starts with one of the prefixes
BodyStartsWith(data, prefixes) ==
  /\ data.t = "string"
  /\ \E p \in prefixes : startsWith(trim(data.v), p)

\* the extension by the precedence: header html, header json, body sniffing,
\* structured body, text
ExtByPrecedence(data, headers) ==
  IF IndexOf(ContentTypeText(headers), HTML) > 0 THEN HTML
  ELSE IF IndexOf(ContentTypeText(headers), JSON) > 0 THEN JSON
  ELSE IF BodyStartsWith(data, {<<"<","!">>, <<"<","h","t","m","l">>}) THEN HTML
  ELSE IF BodyStartsWith(data, {<<"{">>, <<"[">>}) THEN JSON
  ELSE IF data.t = "object" THEN JSON
  ELSE TXT

\* C13: for every body value and every optional content-type header value
\* detectExt never fails and returns the extension given by the precedence:
\* content-type contains html, content-type contains json, a string body that
\* starts (trimmed) with <! or <html, or with { or [, a non-null structured
\* body, otherwise txt.
C13_DetectExtTotal ==
  returns # <<>> =>
    /\ ~returns[1].threw
    /\ returns[1].ext = ExtByPrecedence(args[1], args[2])

----------------------------------------------------------------------------
(* C14: getPathFromUrl.  A URL is put together from its components, as the *)
(* caller of the client writes it.                                         *)

UrlHosts   == { <<"h">>, <<"A","b",".","c">> }
UrlPaths   == { <<>>, <<"/">>, <<"/","V","1","/","p">>, <<"/","a","/","/","b">>, <<"/","a","_","b","/">>, <<"/","a","-","b",".","c">> }
UrlQueries == { <<>>, <<"?","q">>, <<"?","a","/","b","=","1">>, <<"?","x","?","Y">> }

\* a scheme that is not http(s), followed by a path: x:/a
OtherScheme == <<"x", ":">>

UrlInputs ==
  [kind : {"relative", "other"}, host : {<<>>}, path : UrlPaths, query : UrlQueries]
    \cup [kind : {"http", "https"}, host : UrlHosts, path : UrlPaths, query : UrlQueries]

\* the URL string of the components
UrlOf(u) ==
  CASE u.kind = "relative" -> u.path \o u.query
    [] u.kind = "http"     -> HttpPrefix \o u.host \o u.path \o u.query
    [] u.kind = "https"    -> HttpsPrefix \o u.host \o u.path \o u.query
    [] u.kind = "other"    -> OtherScheme \o u.path \o u.query

InitGetPath == HelperInit({<<u>> : u \in UrlInputs})

\* getPathFromUrl(url)
getPathFromUrlCalled ==
  /\ returns = <<>>
  /\ returns' = <<getPathFromUrl(UrlOf(args[1]))>>
  /\ UNCHANGED <<args, hookVars>>

NextGetPath == getPathFromUrlCalled

SpecGetPath == InitGetPath /\ [][NextGetPath]_vars

\* C14: for every URL string, absolute or relative, with or without a query,
\* getPathFromUrl returns the sanitized path component only: scheme, host and
\* query leave no trace, and for a URL that is not absolute the result is the
\* sanitization of what precedes the first "?".
C14_PathComponentOnly ==
  returns # <<>> =>
    /\ returns[1] = sanitize(args[1].path)
    /\ IsSanitized(returns[1])

\* a relative URL with a query that holds a "/" gave its path, sanitized
C14_Witness ==
  /\ returns = << <<"a", "_", "b">> >>
  /\ args[1].kind = "relative"
  /\ args[1].path = <<"/","a","/","/","b">>
  /\ args[1].query = <<"?","a","/","b","=","1">>

----------------------------------------------------------------------------
(* C15: buildFilepath and defaultFilename *)

BuildDirs  == { <<".","/","l">>, <<"/","t","/">>, <<>> }
\* sanitized and unsanitized path identifiers, the empty one
BuildPaths == { <<>>, <<"v","1","_","p">>, <<"A","/","b">> }
BuildTimes == { 0, 1, 1738678234 }

BuildInputs ==
  [dir : BuildDirs, filenameFn : FilenameFunctions,
   params : [ts : BuildTimes, hostname : {getHostname}, url : {UrlRelative},
             path : BuildPaths, kind : {REQ, RES, ERR}],
   ext : {JSON, HTML, TXT}]

InitBuildFilepath == HelperInit({<<b>> : b \in BuildInputs})

\* buildFilepath(dir, filenameFn, params, ext): the record handed to the naming
\* function and the path returned
buildFilepathCalled ==
  /\ Len(returns) < 2
  /\ LET b == args[1] IN
     returns' = Append(returns,
                  [invoked |-> << [ts |-> b.params.ts, hostname |-> b.params.hostname,
                                   url |-> b.params.url, path |-> b.params.path,
                                   kind |-> b.params.kind, ext |-> b.ext] >>,
                   filepath |-> buildFilepath(b.dir, b.filenameFn, b.params, b.ext)])
  /\ UNCHANGED <<args, hookVars>>

NextBuildFilepath == buildFilepathCalled

SpecBuildFilepath == InitBuildFilepath /\ [][NextBuildFilepath]_vars

\* `{ts}_{hostname}_{path}_{kind}.{ext}`
DefaultName(n) ==
  NumToStr(n.ts) \o <<"_">> \o n.hostname \o <<"_">> \o n.path \o <<"_">> \o n.kind
    \o <<".">> \o n.ext

====
